---- MODULE Spec2Model ----
(***************************************************************************)
(* Healthcare AR Training API (backend/main.py): the process-wide model    *)
(* handle set at import time, the request handlers of the FastAPI          *)
(* application, and the responses they put on the wire.                    *)
(*                                                                         *)
(* The handlers are coroutines on one event loop: a handler runs           *)
(* atomically between two awaits.  The only await in the application is    *)
(* `await image.read()` in detect_objects, so every handler is one action  *)
(* except detect_objects, which is two (up to the await, and from it).     *)
(***************************************************************************)
EXTENDS Integers, Sequences, FiniteSets, TLC

VARIABLES
    YOLO_AVAILABLE,  \* main.py:15-23, whether the detection libraries imported
    model,           \* main.py:50-64, the process-wide model handle
    phase,           \* "import" while the module body runs, then "serving"
    inflight,        \* detect_objects coroutines suspended at `await image.read()`
    sessionLog,      \* session ids written by logger.info in save_session
    last             \* the response most recently put on the wire

vars == <<YOLO_AVAILABLE, model, phase, inflight, sessionLog, last>>

(***************************************************************************)
(* Bounds of the model.                                                    *)
(***************************************************************************)
\* detect_objects coroutines that may be suspended at the same time
NumReqs == 2
\* results the model returns for one image
MaxResults == 2
\* boxes over all results of one image
MaxBoxes == 2

(***************************************************************************)
(* Strings whose characters matter are sequences of characters.            *)
(***************************************************************************)
Upper == <<"A","B","C","D","E","F","G","H","I","J","K","L","M",
           "N","O","P","Q","R","S","T","U","V","W","X","Y","Z">>
Lower == <<"a","b","c","d","e","f","g","h","i","j","k","l","m",
           "n","o","p","q","r","s","t","u","v","w","x","y","z">>

\* str.lower() on one character
LowerChar(c) ==
    IF \E i \in 1..Len(Upper) : Upper[i] = c
    THEN Lower[CHOOSE i \in 1..Len(Upper) : Upper[i] = c]
    ELSE c

\* str.lower()
lower(s) == [i \in 1..Len(s) |-> LowerChar(s[i])]

\* `sub in s` on strings
Contains(s, sub) ==
    \E i \in 1..(Len(s) - Len(sub) + 1) : SubSeq(s, i, i + Len(sub) - 1) = sub

(***************************************************************************)
(* The model's class vocabulary (model.names of yolov8n.pt, the entries    *)
(* the boxes below use and the other allow-listed ones).                   *)
(***************************************************************************)
ClassIds == {0, 2, 26, 39, 41, 67, 73}

names ==
    [id \in ClassIds |->
        CASE id = 0  -> <<"p","e","r","s","o","n">>
          [] id = 2  -> <<"c","a","r">>
          [] id = 26 -> <<"h","a","n","d","b","a","g">>
          [] id = 39 -> <<"b","o","t","t","l","e">>
          [] id = 41 -> <<"c","u","p">>
          [] id = 67 -> <<"c","e","l","l"," ","p","h","o","n","e">>
          [] id = 73 -> <<"b","o","o","k">>]

\* the allow-list of main.py:157
RelevantObjects ==
    << <<"b","o","t","t","l","e">>, <<"c","u","p">>,
       <<"p","e","r","s","o","n">>, <<"h","a","n","d">>, <<"b","o","o","k">> >>

\* a mutant of is_relevant: exact membership in the allow-list
is_relevant_exact(class_name) ==
    \E k \in 1..Len(RelevantObjects) : RelevantObjects[k] = lower(class_name)

\* main.py:156-157, any(obj in class_name.lower() for obj in [...])
is_relevant(class_name) ==
    \E k \in 1..Len(RelevantObjects) : Contains(lower(class_name), RelevantObjects[k])

(***************************************************************************)
(* Raw detections.  A box carries cls (a float tensor, here in tenths),    *)
(* conf (in hundredths, at least the 0.5 threshold of main.py:143) and     *)
(* xyxy.  The last box has a class id outside the vocabulary: looking its  *)
(* name up raises KeyError in the loop body.                               *)
(***************************************************************************)
RawBoxes ==
    { [cls |-> 390, conf |-> 91, xyxy |-> <<10, 20, 110, 220>>],
      [cls |-> 20,  conf |-> 88, xyxy |-> <<0, 0, 300, 200>>],
      [cls |-> 260, conf |-> 57, xyxy |-> <<40, 45, 90, 120>>],
      [cls |-> 800, conf |-> 63, xyxy |-> <<5, 5, 6, 6>>] }

RECURSIVE BoxSeqs(_)
\* the sequences of exactly n raw boxes
BoxSeqs(n) ==
    IF n = 0 THEN {<<>>}
    ELSE {<<b>> \o s : b \in RawBoxes, s \in BoxSeqs(n - 1)}

RECURSIVE ResultSeqs(_, _)
\* the sequences of at most m results holding at most n boxes together
ResultSeqs(m, n) ==
    IF m = 0 THEN {<<>>}
    ELSE {<<>>} \cup
         UNION {{<<bs>> \o rest : bs \in BoxSeqs(k), rest \in ResultSeqs(m - 1, n - k)}
                    : k \in 0..n}

AllResults == ResultSeqs(MaxResults, MaxBoxes)

(***************************************************************************)
(* Exceptions, and str() of them.                                          *)
(***************************************************************************)
NoExc == [type |-> "", status |-> 0, msg |-> ""]

HTTPException(status_code, detail) ==
    [type |-> "HTTPException", status |-> status_code, msg |-> detail]

\* int(x) of a non-negative float given in tenths
int(x10) == x10 \div 10

\* str(KeyError(k)) is repr(k); the key here is the id 80
StrOfInt(n) == CASE n = 80 -> "80" [] OTHER -> "?"

KeyError(k) == [type |-> "KeyError", status |-> 0, msg |-> StrOfInt(k)]

\* str(e) of an HTTPException: "<status>: <detail>" where Starlette defines
\* __str__, the empty string where it does not (the constructor is called with
\* keyword arguments only, so e.args is empty)
HTTPExceptionStrs(e) ==
    { "",
      CASE e.status = 400 -> "400: Invalid image"
        [] OTHER -> "503: YOLO model not loaded" }

\* the values str(e) can take
StrOf(e) == IF e.type = "HTTPException" THEN HTTPExceptionStrs(e) ELSE {e.msg}

\* what `except Exception` catches
IsException(e) ==
    e.type \in {"HTTPException", "KeyError", "cv2.error", "RuntimeError", "TypeError"}

(***************************************************************************)
(* detect_objects, main.py:123-176.                                        *)
(***************************************************************************)
Uploads == {"empty", "corrupt", "image"}

\* main.py:69-72
Detection(class_name, confidence, bbox) ==
    [class_name |-> class_name, confidence |-> confidence, bbox |-> bbox]

\* a mutant of append: the new detection goes to the front
append_front(detections, d) == <<d>> \o detections

\* list.append, main.py:158
append(detections, d) == Append(detections, d)

\* the state of the extraction loop: the list built so far and the exception
\* that left the loop, if any
LoopState(detections, exc) == [detections |-> detections, exc |-> exc]

\* main.py:150-162, one pass of the loop body
LoopBody(box, detections) ==
    LET class_id   == int(box.cls)
        confidence == box.conf
        bbox       == box.xyxy
    IN  IF class_id \notin DOMAIN names
        THEN LoopState(detections, KeyError(class_id))
        ELSE LET class_name == names[class_id]
             IN  IF is_relevant(class_name)
                 THEN LoopState(append(detections, Detection(class_name, confidence, bbox)),
                                NoExc)
                 ELSE LoopState(detections, NoExc)

RECURSIVE LoopBoxes(_, _)
\* main.py:149, for box in boxes
LoopBoxes(boxes, detections) ==
    IF boxes = <<>> THEN LoopState(detections, NoExc)
    ELSE LET st == LoopBody(Head(boxes), detections)
         IN  IF st.exc # NoExc THEN st
             ELSE LoopBoxes(Tail(boxes), st.detections)

RECURSIVE LoopResults(_, _)
\* main.py:147, for r in results
LoopResults(results, detections) ==
    IF results = <<>> THEN LoopState(detections, NoExc)
    ELSE LET st == LoopBoxes(Head(results), detections)
         IN  IF st.exc # NoExc THEN st
             ELSE LoopResults(Tail(results), st.detections)

\* cv2.imdecode of the uploaded bytes: an image, None, or (on an empty buffer,
\* depending on the OpenCV build) None or cv2.error
imdecode(upload) ==
    CASE upload = "image"   -> {[img |-> TRUE, exc |-> NoExc]}
      [] upload = "corrupt" -> {[img |-> FALSE, exc |-> NoExc]}
      [] upload = "empty"   ->
            {[img |-> FALSE, exc |-> NoExc],
             [img |-> FALSE,
              exc |-> [type |-> "cv2.error", status |-> 0,
                       msg |-> "(-215:Assertion failed) !buf.empty() in function 'imdecode_'"]]}

\* model(img, conf=0.5, verbose=False): the results, or an exception of the
\* inference run; calling the absent handle raises TypeError
Inference(m) ==
    IF m = "None"
    THEN {[results |-> <<>>,
           exc |-> [type |-> "TypeError", status |-> 0,
                    msg |-> "'NoneType' object is not callable"]]}
    ELSE {[results |-> rs, exc |-> NoExc] : rs \in AllResults}
         \cup {[results |-> <<>>,
                exc |-> [type |-> "RuntimeError", status |-> 0,
                         msg |-> "CUDA out of memory"]]}

\* a mutant of DetectionResponse: count is the number of distinct classes
DetectionResponse_distinct(detections) ==
    [detections |-> detections,
     count |-> Cardinality({detections[i].class_name : i \in 1..Len(detections)})]

\* main.py:168-172; processing_time_ms, a wall-clock reading that no other
\* value depends on, is left out
DetectionResponse(detections) ==
    [detections |-> detections,
     count |-> Len(detections)]

\* The outcome of the try block, main.py:134-172: the stages it went through,
\* the raw results, the local list `detections` when it was left, and either
\* the value returned or the exception raised.
TryOutcome(stages, raw, detections, body, exc) ==
    [stages |-> stages, raw |-> raw, detections |-> detections,
     body |-> body, exc |-> exc]

NoBody == [detail |-> ""]

try_block(dec, out) ==
    IF dec.exc # NoExc
    THEN TryOutcome(<<"read", "decode">>, <<>>, <<>>, NoBody, dec.exc)
    ELSE IF ~dec.img
    THEN TryOutcome(<<"read", "decode">>, <<>>, <<>>, NoBody,
                    HTTPException(400, "Invalid image"))
    ELSE IF out.exc # NoExc
    THEN TryOutcome(<<"read", "decode", "infer">>, <<>>, <<>>, NoBody, out.exc)
    ELSE LET st == LoopResults(out.results, <<>>)
         IN  IF st.exc # NoExc
             THEN TryOutcome(<<"read", "decode", "infer">>, out.results,
                             st.detections, NoBody, st.exc)
             ELSE TryOutcome(<<"read", "decode", "infer">>, out.results,
                             st.detections,
                             DetectionResponse(st.detections), NoExc)

\* a response on the wire, with the request it answers and what the handler did
Response(route, req, status, body, stages, raw) ==
    [route |-> route, req |-> req, status |-> status, body |-> body,
     stages |-> stages, raw |-> raw]

\* a mutant of detect_response: an exception in the loop answers 200 with the
\* detections assembled so far
detect_response_partial(upload, oc, detail) ==
    IF oc.exc = NoExc \/ oc.exc.type = "KeyError"
    THEN Response("/detect", [upload |-> upload], 200,
                  DetectionResponse(oc.detections), oc.stages, oc.raw)
    ELSE Response("/detect", [upload |-> upload], 500, [detail |-> detail],
                  oc.stages, oc.raw)

\* main.py:168-176: the value returned, or the except clause turning the
\* exception caught into HTTPException(500, str(e)); detail is str(e)
detect_response(upload, oc, detail) ==
    IF oc.exc = NoExc
    THEN Response("/detect", [upload |-> upload], 200, oc.body, oc.stages, oc.raw)
    ELSE IF IsException(oc.exc)
    THEN Response("/detect", [upload |-> upload], 500, [detail |-> detail],
                  oc.stages, oc.raw)
    ELSE Response("/detect", [upload |-> upload], oc.exc.status,
                  [detail |-> oc.exc.msg], oc.stages, oc.raw)

(***************************************************************************)
(* The other handlers.                                                     *)
(***************************************************************************)
\* `model is not None`, main.py:108 and 118
model_loaded == model # "None"

\* a mutant of model_absent: the handler does not test the handle
model_absent_unchecked(m) == FALSE

\* `not model`, main.py:130
model_absent(m) == m = "None"

NoReq == [none |-> TRUE]

\* main.py:101-110
root ==
    Response("/", NoReq, 200,
             [status |-> "healthy", service |-> "Healthcare AR Training API",
              version |-> "1.0.0", model_loaded |-> model_loaded,
              endpoints |-> <<"/detect", "/ai-coach", "/sessions", "/health">>],
             <<>>, <<>>)

\* main.py:113-120
health_check ==
    Response("/health", NoReq, 200,
             [status |-> "healthy", model_loaded |-> model_loaded,
              model_type |-> IF model # "None" THEN "YOLOv8n" ELSE "null"],
             <<>>, <<>>)

\* the keys of feedback_map, main.py:201-209
Steps ==
    {"hands_visible", "wetting_motion", "soap_application", "interlace_fingers",
     "back_of_hands", "thumbs", "rinse_motion"}

feedback_map ==
    [k \in Steps |->
        CASE k = "hands_visible"     -> "Great! Keep your hands clearly visible."
          [] k = "wetting_motion"    -> "Good wetting motion! Cover all surfaces."
          [] k = "soap_application"  -> "Excellent circular rubbing motion!"
          [] k = "interlace_fingers" -> "Nice! Make sure fingers are fully interlaced."
          [] k = "back_of_hands"     -> "Good job! Don't forget both backs."
          [] k = "thumbs"            -> "Great thumb cleaning! Rotate them well."
          [] k = "rinse_motion"      -> "Excellent rinsing technique!"]

\* dict.get(key, default)
get(d, key, default) == IF key \in DOMAIN d THEN d[key] ELSE default

\* a mutant of generate_feedback: repeated attempts get another sentence
generate_feedback_attempts(step, duration, motion_type, attempts) ==
    IF attempts > 2 THEN "Take it slowly and try again."
    ELSE get(feedback_map, step, "Keep up the good work!")

\* main.py:198-211
generate_feedback(step, duration, motion_type, attempts) ==
    get(feedback_map, step, "Keep up the good work!")

\* the AICoachRequest bodies tried, main.py:81-85
AICoachRequests ==
    [current_step : Steps \cup {"unknown_step_xyz", ""},
     duration : {0, 20},
     motion_type : {"circular"},
     previous_attempts : {0, 3}]
    \cup
    [current_step : Steps \cup {"unknown_step_xyz"},
     duration : {20},
     motion_type : {"none"},
     previous_attempts : {3}]

\* main.py:179-195
ai_coach(request) ==
    LET feedback == generate_feedback(request.current_step, request.duration,
                                      request.motion_type, request.previous_attempts)
    IN  Response("/ai-coach", request, 200,
                 [feedback |-> feedback, source |-> "rule_based",
                  step |-> request.current_step],
                 <<>>, <<>>)

\* the SessionRequest bodies tried, main.py:88-98: every field of its declared
\* type; scores out of any range, end_time before, at and after start_time,
\* steps empty or not
SessionRequests ==
    [session_id : {"s-1", "s-2"},
     user_id : {"u-1"},
     task : {"handwashing"},
     start_time : {"2024-01-01T10:00:00"},
     end_time : {"2024-01-01T09:00:00", "2024-01-01T10:00:00", "2024-01-01T10:01:00"},
     duration : {60},
     steps : {<<>>, <<[name |-> "thumbs"]>>},
     score : {-5, 100, 250},
     metrics : {[accuracy |-> 1]},
     feedback : {<<>>}]

\* a mutant of save_session: scores outside 0..100 are rejected
save_session_ranged(session) ==
    IF session.score < 0 \/ session.score > 100
    THEN Response("/sessions", session, 422, [detail |-> "score out of range"],
                  <<>>, <<>>)
    ELSE Response("/sessions", session, 200,
                  [status |-> "success", session_id |-> session.session_id,
                   message |-> "Session saved"],
                  <<>>, <<>>)

\* main.py:214-223
save_session(session) ==
    Response("/sessions", session, 200,
             [status |-> "success", session_id |-> session.session_id,
              message |-> "Session saved"],
             <<>>, <<>>)

\* a mutant of get_analytics: the sessions logged are counted
get_analytics_counted ==
    Response("/analytics", NoReq, 200,
             [total_sessions |-> Cardinality(sessionLog), average_score |-> 0,
              message |-> "Analytics endpoint"],
             <<>>, <<>>)

\* main.py:226-233
get_analytics ==
    Response("/analytics", NoReq, 200,
             [total_sessions |-> 0, average_score |-> 0,
              message |-> "Analytics endpoint"],
             <<>>, <<>>)

(***************************************************************************)
(* The state machine.                                                      *)
(***************************************************************************)
Idle == "idle"

Slots == 1..NumReqs

NoResponse == Response("", NoReq, 0, NoBody, <<>>, <<>>)

\* the event loop takes a request once the application is imported and the
\* response before it has been sent
Ready == phase = "serving" /\ last = NoResponse

\* the module body up to main.py:50
Init ==
    /\ YOLO_AVAILABLE \in BOOLEAN
    /\ model = "None"
    /\ phase = "import"
    /\ inflight = [r \in Slots |-> Idle]
    /\ sessionLog = {}
    /\ last = NoResponse

\* main.py:51-61, YOLO('yolov8n.pt') returns
LoadModel ==
    /\ phase = "import"
    /\ YOLO_AVAILABLE
    /\ model' = "YOLOv8n"
    /\ phase' = "serving"
    /\ UNCHANGED <<YOLO_AVAILABLE, inflight, sessionLog, last>>

\* main.py:62-64, the load raises
LoadModelFailed ==
    /\ phase = "import"
    /\ YOLO_AVAILABLE
    /\ model' = "None"
    /\ phase' = "serving"
    /\ UNCHANGED <<YOLO_AVAILABLE, inflight, sessionLog, last>>

\* main.py:65-66, the libraries are absent
YoloUnavailable ==
    /\ phase = "import"
    /\ ~YOLO_AVAILABLE
    /\ phase' = "serving"
    /\ UNCHANGED <<YOLO_AVAILABLE, model, inflight, sessionLog, last>>

Root ==
    /\ Ready
    /\ last' = root
    /\ UNCHANGED <<YOLO_AVAILABLE, model, phase, inflight, sessionLog>>

HealthCheck ==
    /\ Ready
    /\ last' = health_check
    /\ UNCHANGED <<YOLO_AVAILABLE, model, phase, inflight, sessionLog>>

\* main.py:128-135, detect_objects up to `await image.read()`: HTTPException(503)
\* is raised outside the try block and is the response
DetectBegin(r) ==
    /\ Ready
    /\ inflight[r] = Idle
    /\ \E upload \in Uploads :
          IF model_absent(model)
          THEN /\ last' = Response("/detect", [upload |-> upload], 503,
                                   [detail |-> "YOLO model not loaded"], <<>>, <<>>)
               /\ UNCHANGED inflight
          ELSE /\ inflight' = [inflight EXCEPT ![r] = upload]
               /\ UNCHANGED last
    /\ UNCHANGED <<YOLO_AVAILABLE, model, phase, sessionLog>>

\* a mutant of DetectResume: a failed request drops the model handle
DetectResume_drop(r) ==
    /\ Ready
    /\ inflight[r] # Idle
    /\ \E dec \in imdecode(inflight[r]), out \in Inference(model) :
          LET oc == try_block(dec, out)
          IN  /\ \E detail \in StrOf(oc.exc) :
                     last' = detect_response(inflight[r], oc, detail)
              /\ model' = IF oc.exc = NoExc THEN model ELSE "None"
    /\ inflight' = [inflight EXCEPT ![r] = Idle]
    /\ UNCHANGED <<YOLO_AVAILABLE, phase, sessionLog>>

\* main.py:135-176, detect_objects from the await to its response
DetectResume(r) ==
    /\ Ready
    /\ inflight[r] # Idle
    /\ \E dec \in imdecode(inflight[r]), out \in Inference(model) :
          LET oc == try_block(dec, out)
          IN  \E detail \in StrOf(oc.exc) :
                 last' = detect_response(inflight[r], oc, detail)
    /\ inflight' = [inflight EXCEPT ![r] = Idle]
    /\ UNCHANGED <<YOLO_AVAILABLE, model, phase, sessionLog>>

AiCoach ==
    /\ Ready
    /\ \E request \in AICoachRequests : last' = ai_coach(request)
    /\ UNCHANGED <<YOLO_AVAILABLE, model, phase, inflight, sessionLog>>

\* main.py:214-223; the logger line of main.py:217 is the only trace a session leaves
SaveSession ==
    /\ Ready
    /\ \E session \in SessionRequests :
          /\ last' = save_session(session)
          /\ sessionLog' = sessionLog \cup {session.session_id}
    /\ UNCHANGED <<YOLO_AVAILABLE, model, phase, inflight>>

GetAnalytics ==
    /\ Ready
    /\ last' = get_analytics
    /\ UNCHANGED <<YOLO_AVAILABLE, model, phase, inflight, sessionLog>>

\* the server writes the response out
Send ==
    /\ last # NoResponse
    /\ last' = NoResponse
    /\ UNCHANGED <<YOLO_AVAILABLE, model, phase, inflight, sessionLog>>

Next ==
    \/ LoadModel
    \/ LoadModelFailed
    \/ YoloUnavailable
    \/ Root
    \/ HealthCheck
    \/ \E r \in Slots : DetectBegin(r)
    \/ \E r \in Slots : DetectResume(r)
    \/ AiCoach
    \/ SaveSession
    \/ GetAnalytics
    \/ Send

Spec == Init /\ [][Next]_vars

TypeOK ==
    /\ YOLO_AVAILABLE \in BOOLEAN
    /\ model \in {"None", "YOLOv8n"}
    /\ phase \in {"import", "serving"}
    /\ \A r \in Slots : inflight[r] \in Uploads \cup {Idle}
    /\ sessionLog \subseteq {"s-1", "s-2"}
    /\ last.status \in {0, 200, 500, 503}

(***************************************************************************)
(* What the properties below are stated with.                              *)
(***************************************************************************)
RECURSIVE Flatten(_)
\* the raw boxes in emission order: result by result, box by box
Flatten(results) ==
    IF results = <<>> THEN <<>> ELSE Head(results) \o Flatten(Tail(results))

\* the lowercase name has one of the five words as a substring
Retained(class_name) ==
    LET n == lower(class_name)
    IN  \E w \in {<<"b","o","t","t","l","e">>, <<"c","u","p">>,
                  <<"p","e","r","s","o","n">>, <<"h","a","n","d">>,
                  <<"b","o","o","k">>} :
           \E i \in 1..Len(n), j \in 1..Len(n) : SubSeq(n, i, j) = w

InVocabulary(box) == (box.cls \div 10) \in ClassIds

NameOf(box) == names[box.cls \div 10]

\* the Detection a raw box is reported as
Reported(box) ==
    [class_name |-> NameOf(box), confidence |-> box.conf, bbox |-> box.xyxy]

RECURSIVE RetainedOf(_)
\* the subsequence of retained boxes, each as its Detection
RetainedOf(boxes) ==
    IF boxes = <<>> THEN <<>>
    ELSE IF Retained(NameOf(Head(boxes)))
    THEN <<Reported(Head(boxes))>> \o RetainedOf(Tail(boxes))
    ELSE RetainedOf(Tail(boxes))

IsDetect == last.route = "/detect"

IsDetectOK == last.route = "/detect" /\ last.status = 200

Bottle == [cls |-> 390, conf |-> 91, xyxy |-> <<10, 20, 110, 220>>]
Car == [cls |-> 20,  conf |-> 88, xyxy |-> <<0, 0, 300, 200>>]
Handbag == [cls |-> 260, conf |-> 57, xyxy |-> <<40, 45, 90, 120>>]
Unknown == [cls |-> 800, conf |-> 63, xyxy |-> <<5, 5, 6, 6>>]

(***************************************************************************)
(* C1: a POST /detect made while a model is loaded, whose upload is empty  *)
(* or cannot be decoded, is answered 400.                                  *)
(***************************************************************************)
C1_InvalidImageIs400 ==
    (IsDetect /\ model # "None" /\ last.req.upload \in {"empty", "corrupt"})
        => last.status = 400

(***************************************************************************)
(* C2: with no model loaded the process serves, every POST /detect is      *)
(* answered 503 before the upload is read, decoded or run through the      *)
(* model, and / and /health report model_loaded false (model_type null).   *)
(***************************************************************************)
C2_NoModelMeans503 ==
    (phase = "serving" /\ model = "None") =>
        /\ \A r \in Slots : inflight[r] = Idle
        /\ IsDetect => /\ last.status = 503
                       /\ last.stages = <<>>
                       /\ last.body = [detail |-> "YOLO model not loaded"]
        /\ last.route = "/health" => /\ last.body.model_loaded = FALSE
                                     /\ last.body.model_type = "null"
        /\ last.route = "/" => last.body.model_loaded = FALSE

C2_Witness ==
    /\ model = "None"
    /\ sessionLog # {}
    /\ IsDetect
    /\ last.status = 503
    /\ last.req.upload = "image"

(***************************************************************************)
(* C3: a 200 response of POST /detect has count = length(detections),      *)
(* also when no detection is retained.                                     *)
(***************************************************************************)
C3_CountIsLength ==
    IsDetectOK => last.body.count = Len(last.body.detections)

C3_Witness ==
    /\ IsDetectOK
    /\ last.raw = << <<Car>> >>
    /\ last.body.count = 0
    /\ last.body.detections = <<>>

(***************************************************************************)
(* C4: a raw detection is in the response of POST /detect if and only if   *)
(* its lowercase class name contains one of bottle, cup, person, hand,     *)
(* book as a substring: bottle and handbag are retained, car is not.       *)
(***************************************************************************)
C4_RetainedIffSubstring ==
    /\ is_relevant(names[39]) /\ is_relevant(names[26]) /\ ~is_relevant(names[2])
    /\ \A id \in ClassIds : is_relevant(names[id]) <=> Retained(names[id])
    /\ IsDetectOK =>
          \A k \in 1..Len(Flatten(last.raw)) :
             LET box == Flatten(last.raw)[k]
             IN  (\E i \in 1..Len(last.body.detections) :
                      last.body.detections[i] = Reported(box))
                    <=> Retained(NameOf(box))

C4_Witness ==
    /\ IsDetectOK
    /\ last.raw = << <<Handbag, Car>> >>
    /\ last.body.detections = <<Reported(Handbag)>>

(***************************************************************************)
(* C5: the feedback of POST /ai-coach is the fixed sentence of             *)
(* current_step, or the fallback for any other string, whatever duration,  *)
(* motion_type and previous_attempts are; step echoes current_step.        *)
(***************************************************************************)
FeedbackOf(step) ==
    CASE step = "hands_visible"     -> "Great! Keep your hands clearly visible."
      [] step = "wetting_motion"    -> "Good wetting motion! Cover all surfaces."
      [] step = "soap_application"  -> "Excellent circular rubbing motion!"
      [] step = "interlace_fingers" -> "Nice! Make sure fingers are fully interlaced."
      [] step = "back_of_hands"     -> "Good job! Don't forget both backs."
      [] step = "thumbs"            -> "Great thumb cleaning! Rotate them well."
      [] step = "rinse_motion"      -> "Excellent rinsing technique!"
      [] OTHER                      -> "Keep up the good work!"

C5_FeedbackByStepAlone ==
    last.route = "/ai-coach" =>
        /\ last.status = 200
        /\ last.body.feedback = FeedbackOf(last.req.current_step)
        /\ last.body.step = last.req.current_step

C5_Witness ==
    /\ last.route = "/ai-coach"
    /\ last.req.current_step = "thumbs"
    /\ last.req.previous_attempts = 3
    /\ last.req.motion_type = "none"
    /\ last.body.feedback = "Great thumb cleaning! Rotate them well."

(***************************************************************************)
(* C6: POST /detect ends in a 200 carrying the complete filtered list or   *)
(* in a 503, 400 or 500 carrying no detections; a failure raised after     *)
(* some detections were assembled is a 500 whose detail is the error's     *)
(* message.                                                                *)
(***************************************************************************)
C6_NoPartialResults ==
    IsDetect =>
        /\ last.status \in {200, 503, 400, 500}
        /\ last.status = 200 =>
              /\ \A k \in 1..Len(Flatten(last.raw)) : InVocabulary(Flatten(last.raw)[k])
              /\ DOMAIN last.body = {"detections", "count"}
              /\ last.body.detections = RetainedOf(Flatten(last.raw))
        /\ last.status # 200 => DOMAIN last.body = {"detail"}
        /\ (\E k \in 1..Len(Flatten(last.raw)) : ~InVocabulary(Flatten(last.raw)[k])) =>
              /\ last.status = 500
              /\ last.body = [detail |-> "80"]

C6_Witness ==
    /\ IsDetect
    /\ last.raw = << <<Bottle>>, <<Unknown>> >>
    /\ last.status = 500
    /\ last.body = [detail |-> "80"]

(***************************************************************************)
(* C7: GET /analytics answers total_sessions = 0 and average_score = 0     *)
(* whatever sessions were posted before.                                   *)
(***************************************************************************)
C7_AnalyticsIsZero ==
    last.route = "/analytics" =>
        /\ last.status = 200
        /\ last.body.total_sessions = 0
        /\ last.body.average_score = 0

C7_Witness ==
    /\ last.route = "/analytics"
    /\ sessionLog = {"s-1", "s-2"}

(***************************************************************************)
(* C8: POST /sessions answers status success, message Session saved and    *)
(* the session_id received, whatever the score, the order of start_time    *)
(* and end_time, and the steps.                                            *)
(***************************************************************************)
C8_SessionEchoed ==
    last.route = "/sessions" =>
        /\ last.status = 200
        /\ last.body.status = "success"
        /\ last.body.message = "Session saved"
        /\ last.body.session_id = last.req.session_id

C8_Witness ==
    /\ last.route = "/sessions"
    /\ last.req.session_id = "s-2"
    /\ last.req.score = -5
    /\ last.req.end_time = "2024-01-01T09:00:00"
    /\ last.req.start_time = "2024-01-01T10:00:00"
    /\ last.req.steps = <<>>
    /\ last.body.session_id = "s-2"

(***************************************************************************)
(* C9: once startup is over no step of any handler, under any              *)
(* interleaving, changes the model handle, and every / and /health         *)
(* response reports the handle set at startup.                             *)
(***************************************************************************)
C9_HandleNeverWritten ==
    [][phase = "serving" =>
          /\ model' = model
          /\ last'.route \in {"/", "/health"} =>
                last'.body.model_loaded = (model # "None")]_vars

C9_Witness ==
    /\ model = "YOLOv8n"
    /\ last.route = "/health"
    /\ last.body.model_loaded
    /\ inflight[1] = "corrupt"
    /\ inflight[2] = "image"
    /\ sessionLog # {}

(***************************************************************************)
(* C10: the detections of a 200 response of POST /detect are the retained  *)
(* raw detections in emission order, one Detection each, with the raw      *)
(* detection's own class name, confidence and bbox.                        *)
(***************************************************************************)
C10_EmissionOrder ==
    IsDetectOK => last.body.detections = RetainedOf(Flatten(last.raw))

C10_Witness ==
    /\ IsDetectOK
    /\ last.raw = << <<Handbag>>, <<Bottle>> >>
    /\ last.body.detections = <<Reported(Handbag), Reported(Bottle)>>

====
